---- MODULE Spec2Model ----
(***************************************************************************)
(* philipshue: the bridge error-code taxonomy (errors.rs), the response    *)
(* envelope (json.rs, bridge.rs), the change-record interpreters           *)
(* (success.rs), the registration loop (examples/register_user.rs) and the *)
(* LightCommand builders (hue.rs).                                         *)
(*                                                                         *)
(* Five specifications share the variables:                                *)
(*   SpecErrors    BridgeError::from(u16) and `variant as u16`             *)
(*   Spec          one Bridge call: request, body, send, extract or        *)
(*                 into_result; Bridge::new and its getters                *)
(*   SpecChange    Light::from, Rename::from, Group::from, Delete::from    *)
(*   SpecRegister  the loop around register_user                           *)
(*   SpecCommand   a chain of LightCommand builder calls                   *)
(***************************************************************************)
EXTENDS Integers, Sequences, FiniteSets, TLC

VARIABLES
    errIn,      \* the u16 handed to BridgeError::from
    errCastOf,  \* the variant errIn was obtained from by `as u16`, or "none"
    errOut,     \* the variant BridgeError::from returned, or "none"
    call,       \* the Bridge call in progress: operation, transport outcome, body
    result,     \* what the Bridge call returned to its caller
    chIn,       \* the Success (path, value) or String handed to an interpreter
    chTo,       \* the record type the interpreter converts into
    chOut,      \* what the interpreter produced
    reg,        \* the registration loop: its position, the answers still to come
    cmd,        \* the LightCommand being built
    calls       \* the builder calls made on cmd so far, oldest first

vars == <<errIn, errCastOf, errOut, call, result, chIn, chTo, chOut, reg, cmd, calls>>

(***************************************************************************)
(* errors.rs: the error table                                              *)
(***************************************************************************)

\* Largest value of the u16 parameter of BridgeError::from.
MaxU16 == 65535

\* The variants of BridgeError in declaration order, with the discriminant
\* each is declared with.
ErrorTable ==
    << [err |-> "UnauthorizedUser", n |-> 1],
       [err |-> "BodyContainsInvalidJson", n |-> 2],
       [err |-> "ResourceNotAvailable", n |-> 3],
       [err |-> "MethodNotAvailableForResource", n |-> 4],
       [err |-> "MissingParametersInBody", n |-> 5],
       [err |-> "ParameterNotAvailable", n |-> 6],
       [err |-> "InvalidValueForParameter", n |-> 7],
       [err |-> "ParameterIsNotModifiable", n |-> 8],
       [err |-> "TooManyItemsInList", n |-> 11],
       [err |-> "ProtalConnectionRequired", n |-> 12],
       [err |-> "InternalError", n |-> 901],
       [err |-> "LinkButtonNotPressed", n |-> 101],
       [err |-> "DHCPCannotBeDisabled", n |-> 110],
       [err |-> "InvalidUpdateState", n |-> 111],
       [err |-> "DeviceIsSetToOff", n |-> 201],
       [err |-> "GroupCouldNotBeCreatedGroupFull", n |-> 301],
       [err |-> "DeviceCouldNotBeAddedGroupFull", n |-> 302],
       [err |-> "DeviceIsUnreachable", n |-> 304],
       [err |-> "UpdateOrDeleteGroupOfThisTypeNotAllowed", n |-> 305],
       [err |-> "LightAlreadyUsed", n |-> 306],
       [err |-> "SceneCouldNotBeCreated", n |-> 401],
       [err |-> "SceneCouldNotBeCreatedBufferFull", n |-> 402],
       [err |-> "SceneCouldNotBeRemoved", n |-> 403],
       [err |-> "NotAllowedToCreateSensorType", n |-> 501],
       [err |-> "SensorListIsFull", n |-> 502],
       [err |-> "RuleEngineFull", n |-> 601],
       [err |-> "ConditionError", n |-> 607],
       [err |-> "ActionError", n |-> 608],
       [err |-> "UnableToActivae", n |-> 609],
       [err |-> "ScheduleListIsFull", n |-> 701],
       [err |-> "ScheduleTimezoneNotValid", n |-> 702],
       [err |-> "ScheduleCannotSetTimeAndLocalTime", n |-> 703],
       [err |-> "CannotCreateSchedule", n |-> 704],
       [err |-> "CannotEnableScheduleTimeInPast", n |-> 705],
       [err |-> "CommandError", n |-> 706],
       [err |-> "SourceModelInvalid", n |-> 801],
       [err |-> "SourceFactoryNew", n |-> 802],
       [err |-> "InvalidState", n |-> 803] >>

\* The catch-all variant, declared last and without a discriminant.
OtherVariant == "Other"

Variants == {ErrorTable[i].err : i \in 1..Len(ErrorTable)} \cup {OtherVariant}

\* The arms of the match generated by error_enum!, tried in order.
RECURSIVE MatchArm(_, _)
MatchArm(n, i) ==
    IF i > Len(ErrorTable) THEN OtherVariant
    ELSE IF ErrorTable[i].n = n THEN ErrorTable[i].err
    ELSE MatchArm(n, i + 1)

\* A match that lost the arms of the command-specific errors.
BridgeErrorFromGenericOnly(n) ==
    IF n > 100 /\ n < 900 THEN OtherVariant ELSE MatchArm(n, 1)

\* impl From<u16> for BridgeError
BridgeErrorFrom(n) == MatchArm(n, 1)

\* A cast by position in the declaration, as for an enum without
\* explicit discriminants.
AsU16ByPosition(v) ==
    IF v = OtherVariant THEN Len(ErrorTable)
    ELSE (CHOOSE i \in 1..Len(ErrorTable) : ErrorTable[i].err = v) - 1

\* `v as u16` for the #[repr(u16)] enum: the declared discriminant; a
\* variant declared without one gets its predecessor's plus one.
AsU16(v) ==
    IF v = OtherVariant THEN (ErrorTable[Len(ErrorTable)].n + 1) % (MaxU16 + 1)
    ELSE ErrorTable[CHOOSE i \in 1..Len(ErrorTable) : ErrorTable[i].err = v].n

\* Idle values of the variables a specification does not use.
NoCall == [op |-> "none"]
NoResult == [r |-> "none"]
NoChange == [c |-> "none"]
NoLoop == [pc |-> "none"]
NoCommand == [on |-> "none"]

InitErrors ==
    /\ errIn = 0
    /\ errCastOf = "none"
    /\ errOut = "none"
    /\ call = NoCall
    /\ result = NoResult
    /\ chIn = NoChange
    /\ chTo = "none"
    /\ chOut = NoChange
    /\ reg = NoLoop
    /\ cmd = NoCommand
    /\ calls = << >>

\* BridgeError::from(n) for a code n received from the bridge
FromCode ==
    /\ errOut = "none" /\ errCastOf = "none"
    /\ \E n \in 0..MaxU16 :
        /\ errIn' = n
        /\ errOut' = BridgeErrorFrom(n)
    /\ UNCHANGED <<errCastOf, call, result, chIn, chTo, chOut, reg, cmd, calls>>

\* v as u16
CastVariant ==
    /\ errOut = "none" /\ errCastOf = "none"
    /\ \E v \in Variants :
        /\ errIn' = AsU16(v)
        /\ errCastOf' = v
    /\ UNCHANGED <<errOut, call, result, chIn, chTo, chOut, reg, cmd, calls>>

\* BridgeError::from(v as u16)
FromCast ==
    /\ errOut = "none" /\ errCastOf # "none"
    /\ errOut' = BridgeErrorFrom(errIn)
    /\ UNCHANGED <<errIn, errCastOf, call, result, chIn, chTo, chOut, reg, cmd, calls>>

NextErrors == FromCode \/ CastVariant \/ FromCast

SpecErrors == InitErrors /\ [][NextErrors]_vars

(***************************************************************************)
(* Claims on the error taxonomy                                            *)
(***************************************************************************)

\* The error table as the vendor documents it.
DocumentedCodes ==
    (1..8) \cup {11, 12, 101, 110, 111, 201, 301, 302, 304, 305, 306}
        \cup (401..403) \cup {501, 502, 601} \cup (607..609) \cup (701..706)
        \cup (801..803) \cup {901}

\* The number each named variant is declared with, by name.
DeclaredNumber(v) ==
    ErrorTable[CHOOSE i \in 1..Len(ErrorTable) : ErrorTable[i].err = v].n

\* C1: for every 16-bit code n, BridgeError::from(n) is the variant declared
\* with the number n when n is in the documented table, and Other for every
\* n outside it (0 included); every code has a result.
C1_FromCodeTotal ==
    errOut # "none" =>
        /\ errOut \in Variants
        /\ errIn \in DocumentedCodes =>
              errOut # OtherVariant /\ DeclaredNumber(errOut) = errIn
        /\ errIn \notin DocumentedCodes => errOut = OtherVariant

\* C1 witness: a command-specific code has been converted.
C1_Witness == errIn = 403 /\ errOut = "SceneCouldNotBeRemoved"

\* C2: casting any variant (Other included) to u16 and converting the number
\* back gives the same variant, and a named variant casts to the number it
\* is declared with (SceneCouldNotBeRemoved is 403, InternalError is 901).
C2_RoundTrip ==
    /\ errCastOf # "none" /\ errOut # "none" => errOut = errCastOf
    /\ errCastOf \notin {"none", OtherVariant} => errIn = DeclaredNumber(errCastOf)
    /\ errCastOf = "SceneCouldNotBeRemoved" => errIn = 403
    /\ errCastOf = "InternalError" => errIn = 901

\* C2 witness: the catch-all variant has been cast and converted back.
C2_Witness == errCastOf = OtherVariant /\ errOut = OtherVariant

(***************************************************************************)
(* JSON values (serde_json::Value) and the bytes of a response body        *)
(***************************************************************************)

JNull == [k |-> "null"]
JBool(b) == [k |-> "bool", b |-> b]
\* serde_json::Number: PosInt(u64), NegInt(i64) or Float(f64).  A Float
\* carries the numerator m of the dyadic fraction m / 2^e.
JPosInt(n) == [k |-> "num", repr |-> "PosInt", n |-> n, e |-> 0]
JNegInt(n) == [k |-> "num", repr |-> "NegInt", n |-> n, e |-> 0]
JFloat(m, e) == [k |-> "num", repr |-> "Float", n |-> m, e |-> e]
JStr(s) == [k |-> "str", s |-> s]
JArr(a) == [k |-> "arr", a |-> a]
\* An object is the sequence of its entries; keys are distinct.
JObj(o) == [k |-> "obj", o |-> o]
Entry(key, val) == [key |-> key, val |-> val]
\* Bytes that are not JSON at all.
NotJson == [k |-> "invalid"]

HasKey(j, key) == \E i \in 1..Len(j.o) : j.o[i].key = key
GetKey(j, key) == j.o[CHOOSE i \in 1..Len(j.o) : j.o[i].key = key].val

(***************************************************************************)
(* The Rust values a body is decoded into                                  *)
(***************************************************************************)

RStr(s) == [v |-> "String", s |-> s]
RInt(n) == [v |-> "int", n |-> n]
RBool(b) == [v |-> "bool", b |-> b]
RNone == [v |-> "None"]
RSome(x) == [v |-> "Some", x |-> x]
RVec(items) == [v |-> "Vec", items |-> items]
\* JsonMap<String, JsonValue>
RMap(o) == [v |-> "Map", o |-> o]
\* A struct value: the values of its fields in declaration order.
RStruct(name, f) == [v |-> "struct", name |-> name, f |-> f]

\* Result<T, HueError>
Ok(x) == [r |-> "Ok", val |-> x]
Err(e) == [r |-> "Err", err |-> e]

\* HueErrorKind
BridgeErrorKind(address, description, error) ==
    [kind |-> "BridgeError", address |-> address, description |-> description,
     error |-> error]
MsgKind(msg) == [kind |-> "Msg", msg |-> msg]
JsonErrorKind == [kind |-> "JsonError"]
HyperErrorKind == [kind |-> "HyperError"]

(***************************************************************************)
(* The types a body is decoded as (hue.rs, json.rs)                        *)
(***************************************************************************)

TString == [t |-> "String"]
TBool == [t |-> "bool"]
\* An unsigned integer type of the given number of bits.
TUInt(bits) == [t |-> "uint", bits |-> bits]
\* usize: every non-negative integer the bodies of this model contain fits.
TUSize == [t |-> "usize"]
TF32Pair == [t |-> "f32pair"]
TMap == [t |-> "Map"]
TOption(T) == [t |-> "Option", of |-> T]
TVec(T) == [t |-> "Vec", of |-> T]
TStruct(name, fields) == [t |-> "struct", name |-> name, fields |-> fields]
Field(name, T) == [name |-> name, ty |-> T]

\* json.rs: Error
TError ==
    TStruct("Error", << Field("address", TString),
                        Field("description", TString),
                        Field("type", TUInt(16)) >>)

\* json.rs: HueResponse<T>
THueResponse(T) ==
    TStruct("HueResponse", << Field("success", TOption(T)),
                              Field("error", TOption(TError)) >>)

\* json.rs: Id<T>
TId(T) == TStruct("Id", << Field("id", T) >>)

\* hue.rs: LightState
TLightState ==
    TStruct("LightState", << Field("on", TBool),
                             Field("bri", TUInt(8)),
                             Field("hue", TOption(TUInt(16))),
                             Field("sat", TOption(TUInt(8))),
                             Field("xy", TOption(TF32Pair)),
                             Field("ct", TOption(TUInt(16))),
                             Field("alert", TString),
                             Field("effect", TOption(TString)),
                             Field("colormode", TOption(TString)),
                             Field("reachable", TBool) >>)

\* hue.rs: Light
TLight ==
    TStruct("Light", << Field("name", TString),
                        Field("modelid", TString),
                        Field("swversion", TString),
                        Field("uniqueid", TString),
                        Field("state", TLightState) >>)

\* bridge.rs: SuccessVec is what extract makes of Vec<HueResponse<Map>>.
TSuccessVecIn == TVec(THueResponse(TMap))

\* The types send and into_result are instantiated with, by name.
TypeNamed(name) ==
    CASE name = "Light" -> TLight
      [] name = "Vec<HueResponse<Map>>" -> TSuccessVecIn
      [] name = "Vec<HueResponse<String>>" -> TVec(THueResponse(TString))
      [] name = "HueResponse<Id<usize>>" -> THueResponse(TId(TUSize))
      [] name = "HueResponse<Id<String>>" -> THueResponse(TId(TString))
      [] name = "HueResponse<Map>" -> THueResponse(TMap)
      [] name = "HueResponse<String>" -> THueResponse(TString)
      [] name = "HueResponse<Light>" -> THueResponse(TLight)

(***************************************************************************)
(* serde_json::from_reader::<_, T>: what the derived Deserialize           *)
(* implementations of the types above accept                               *)
(***************************************************************************)

Good(x) == [ok |-> TRUE, val |-> x]
Bad == [ok |-> FALSE]

RECURSIVE Deser(_, _)
Deser(T, j) ==
    CASE T.t = "String" -> IF j.k = "str" THEN Good(RStr(j.s)) ELSE Bad
      [] T.t = "bool" -> IF j.k = "bool" THEN Good(RBool(j.b)) ELSE Bad
      [] T.t = "uint" ->
            IF j.k = "num" /\ j.repr = "PosInt" /\ j.n < 2 ^ T.bits
            THEN Good(RInt(j.n)) ELSE Bad
      [] T.t = "usize" ->
            IF j.k = "num" /\ j.repr = "PosInt" THEN Good(RInt(j.n)) ELSE Bad
      [] T.t = "f32pair" ->
            IF j.k = "arr" /\ Len(j.a) = 2 /\ \A i \in 1..2 : j.a[i].k = "num"
            THEN Good(RVec(j.a)) ELSE Bad
      [] T.t = "Map" -> IF j.k = "obj" THEN Good(RMap(j.o)) ELSE Bad
      [] T.t = "Option" ->
            \* null is None, anything else must be a T
            IF j.k = "null" THEN Good(RNone)
            ELSE LET d == Deser(T.of, j)
                 IN IF d.ok THEN Good(RSome(d.val)) ELSE Bad
      [] T.t = "Vec" ->
            IF j.k = "arr"
            THEN LET ds == [i \in 1..Len(j.a) |-> Deser(T.of, j.a[i])]
                 IN IF \A i \in 1..Len(j.a) : ds[i].ok
                    THEN Good(RVec([i \in 1..Len(j.a) |-> ds[i].val]))
                    ELSE Bad
            ELSE Bad
      [] T.t = "struct" ->
            IF j.k = "obj"
            THEN \* visit_map: unknown keys are ignored, a missing Option
                 \* field is None, any other missing field is an error
                 LET ds == [i \in 1..Len(T.fields) |->
                              IF HasKey(j, T.fields[i].name)
                              THEN Deser(T.fields[i].ty, GetKey(j, T.fields[i].name))
                              ELSE IF T.fields[i].ty.t = "Option" THEN Good(RNone)
                              ELSE Bad]
                 IN IF \A i \in 1..Len(T.fields) : ds[i].ok
                    THEN Good(RStruct(T.name, [i \in 1..Len(T.fields) |-> ds[i].val]))
                    ELSE Bad
            ELSE IF j.k = "arr"
            THEN \* visit_seq: the fields by position, all of them
                 IF Len(j.a) = Len(T.fields)
                 THEN LET ds == [i \in 1..Len(T.fields) |->
                                   Deser(T.fields[i].ty, j.a[i])]
                      IN IF \A i \in 1..Len(T.fields) : ds[i].ok
                         THEN Good(RStruct(T.name,
                                     [i \in 1..Len(T.fields) |-> ds[i].val]))
                         ELSE Bad
                 ELSE Bad
            ELSE Bad

(***************************************************************************)
(* json.rs, errors.rs, bridge.rs: the response envelope                    *)
(***************************************************************************)

\* A conversion that mixes up the two strings.
FromJsonErrorSwapped(e) ==
    BridgeErrorKind(e.f[2].s, e.f[1].s, BridgeErrorFrom(e.f[3].n))

\* impl From<json::Error> for HueError
FromJsonError(e) ==
    BridgeErrorKind(e.f[1].s, e.f[2].s, BridgeErrorFrom(e.f[3].n))

\* into_result taking an absent success for an empty one.
IntoResultLenient(resp) ==
    IF resp.f[1].v = "Some" THEN Ok(resp.f[1].x)
    ELSE IF resp.f[2].v = "Some" THEN Err(FromJsonError(resp.f[2].x))
    ELSE Ok(RNone)

\* HueResponse::into_result
IntoResult(resp) ==
    IF resp.f[1].v = "Some" THEN Ok(resp.f[1].x)
    ELSE IF resp.f[2].v = "Some" THEN Err(FromJsonError(resp.f[2].x))
    ELSE Err(MsgKind("Malformed repsonse"))

\* A loop that passes over the outcomes that are no successes.
RECURSIVE ExtractLoopSkipping(_, _, _)
ExtractLoopSkipping(responses, i, res_v) ==
    IF i > Len(responses) THEN Ok(RVec(res_v))
    ELSE LET one == IntoResult(responses[i])
         IN IF one.r = "Err" THEN ExtractLoopSkipping(responses, i + 1, res_v)
            ELSE ExtractLoopSkipping(responses, i + 1, Append(res_v, one.val))

\* extract: the loop over the responses, res_v being the payloads pushed
\* so far; `?` returns the first error.
RECURSIVE ExtractLoop(_, _, _)
ExtractLoop(responses, i, res_v) ==
    IF i > Len(responses) THEN Ok(RVec(res_v))
    ELSE LET one == IntoResult(responses[i])
         IN IF one.r = "Err" THEN one
            ELSE ExtractLoop(responses, i + 1, Append(res_v, one.val))

\* extract insisting on at least one outcome, as send's fallback does.
ExtractNonEmpty(responses) ==
    IF Len(responses.items) = 0 THEN Err(MsgKind("Malformed response"))
    ELSE ExtractLoop(responses.items, 1, << >>)

\* extract(responses: Vec<HueResponse<T>>) -> Result<Vec<T>>
Extract(responses) == ExtractLoop(responses.items, 1, << >>)

\* The outcomes of hyper's RequestBuilder::send and of read_to_end.
Transports == {"ok", "send_failed", "read_failed"}

\* send taking a body it cannot decode for an empty batch.
SendDefaulting(T, transport, body) ==
    IF transport = "send_failed" THEN Err(HyperErrorKind)
    ELSE IF transport = "read_failed" THEN Err(JsonErrorKind)
    ELSE LET whole == Deser(T, body)
         IN IF whole.ok THEN Ok(whole.val)
            ELSE LET batch == Deser(TVec(THueResponse(T)), body)
                 IN IF ~batch.ok THEN Ok(RVec(<< >>))
                    ELSE IF Len(batch.val.items) = 0
                    THEN Err(MsgKind("Malformed response"))
                    ELSE IntoResult(batch.val.items[1])

\* A fallback that takes the last outcome of the array, as pop() would.
SendLastElement(T, transport, body) ==
    IF transport = "send_failed" THEN Err(HyperErrorKind)
    ELSE IF transport = "read_failed" THEN Err(JsonErrorKind)
    ELSE LET whole == Deser(T, body)
         IN IF whole.ok THEN Ok(whole.val)
            ELSE LET batch == Deser(TVec(THueResponse(T)), body)
                 IN IF ~batch.ok THEN Err(JsonErrorKind)
                    ELSE IF Len(batch.val.items) = 0
                    THEN Err(MsgKind("Malformed response"))
                    ELSE IntoResult(batch.val.items[Len(batch.val.items)])

\* send::<T>(rb)
Send(T, transport, body) ==
    IF transport = "send_failed" THEN Err(HyperErrorKind)
    ELSE IF transport = "read_failed" THEN Err(JsonErrorKind)
    ELSE LET whole == Deser(T, body)
         IN IF whole.ok THEN Ok(whole.val)
            ELSE LET batch == Deser(TVec(THueResponse(T)), body)
                 IN IF ~batch.ok THEN Err(JsonErrorKind)
                    ELSE IF Len(batch.val.items) = 0
                    THEN Err(MsgKind("Malformed response"))
                    ELSE IntoResult(batch.val.items[1])

\* The answers the bridge will give to the requests to come, the next one
\* first.  RequestBuilder::send takes the head.
\* A send that asks again when the transport failed.
SendViaRetrying(T, wire) ==
    IF Head(wire).transport # "ok" /\ Len(wire) > 1
    THEN [res |-> Send(T, wire[2].transport, wire[2].body),
          wire |-> Tail(Tail(wire))]
    ELSE [res |-> Send(T, Head(wire).transport, Head(wire).body),
          wire |-> Tail(wire)]

\* send::<T>(rb) on the wire: what it returns and what it leaves unasked.
SendVia(T, wire) ==
    [res |-> Send(T, Head(wire).transport, Head(wire).body),
     wire |-> Tail(wire)]

\* result.and_then(f)
AndThenExtract(res) == IF res.r = "Ok" THEN Extract(res.val) ELSE res

\* r.into_result().map(|g| g.id) after `?`
IntoResultId(res) ==
    IF res.r = "Err" THEN res
    ELSE LET one == IntoResult(res.val)
         IN IF one.r = "Ok" THEN Ok(one.val.f[1]) ELSE one

(***************************************************************************)
(* The response bodies a bridge (or anything answering in its place) sends *)
(***************************************************************************)

\* Longest outcome array in a body.
MaxBatch == 2

\* A light as GET /lights/<id> returns it, and one without its state.
LightStateObj ==
    JObj(<< Entry("on", JBool(TRUE)), Entry("bri", JPosInt(200)),
            Entry("alert", JStr("none")), Entry("reachable", JBool(TRUE)),
            Entry("xy", JArr(<< JFloat(1, 1), JFloat(1, 2) >>)) >>)
LightObj ==
    JObj(<< Entry("name", JStr("Hall")), Entry("modelid", JStr("LCT001")),
            Entry("swversion", JStr("1.0")), Entry("uniqueid", JStr("00:17")),
            Entry("state", LightStateObj) >>)
LightNoState ==
    JObj(<< Entry("name", JStr("Hall")), Entry("modelid", JStr("LCT001")),
            Entry("swversion", JStr("1.0")), Entry("uniqueid", JStr("00:17")) >>)

\* Success payloads: path/value maps, a delete acknowledgement, created ids,
\* a light.
MapOn == JObj(<< Entry("/lights/1/state/on", JBool(TRUE)) >>)
MapBri == JObj(<< Entry("/lights/1/state/bri", JPosInt(200)) >>)
StrDeleted == JStr("/groups/1 deleted")
IdNum == JObj(<< Entry("id", JPosInt(7)) >>)
IdStr == JObj(<< Entry("id", JStr("7")) >>)
Payloads == {MapOn, MapBri, StrDeleted, IdNum, IdStr, LightObj}

\* Error objects {address, description, type}.
ErrObj(address, description, type) ==
    JObj(<< Entry("type", type), Entry("address", JStr(address)),
            Entry("description", JStr(description)) >>)
ErrOff == ErrObj("/lights/1/state/bri", "Device is set to off.", JPosInt(201))
ErrLink == ErrObj("", "link button not pressed", JPosInt(101))
ErrFuture == ErrObj("/groups", "not yet documented", JPosInt(12345))
\* A type that is no u16.
ErrWide == ErrObj("/lights", "type out of range", JPosInt(70000))
ErrorObjects == {ErrOff, ErrLink, ErrFuture}

OnlySuccess(p) == JObj(<< Entry("success", p) >>)
OnlyError(e) == JObj(<< Entry("error", e) >>)
Both(p, e) == JObj(<< Entry("success", p), Entry("error", e) >>)
Neither == JObj(<< >>)

\* The elements of an array body: outcome objects with one key, with both,
\* with neither, and values that are no outcome objects.
Elements ==
    {OnlySuccess(p) : p \in Payloads}
        \cup {OnlyError(e) : e \in ErrorObjects}
        \cup {Both(MapOn, ErrOff), Both(StrDeleted, ErrLink), Both(IdNum, ErrFuture)}
        \cup {Neither, IdNum, OnlySuccess(JNull), OnlyError(ErrWide)}
        \cup {JArr(<< MapOn, JNull >>), JPosInt(5)}

ArrayBodies == {JArr(a) : a \in UNION {[1..n -> Elements] : n \in 0..MaxBatch}}

\* Bodies that are no arrays.
OtherBodies ==
    {LightObj, LightNoState, Neither, OnlySuccess(IdNum), OnlySuccess(IdStr),
     OnlyError(ErrOff), JStr("ok"), JNull, JPosInt(5), NotJson}

Bodies == ArrayBodies \cup OtherBodies

(***************************************************************************)
(* success.rs, bridge.rs: strings that are taken apart are sequences of     *)
(* characters                                                              *)
(***************************************************************************)

Slash == << "/" >>
StrLights == << "l", "i", "g", "h", "t", "s" >>
StrGroups == << "g", "r", "o", "u", "p", "s" >>
StrState == << "s", "t", "a", "t", "e" >>
StrAction == << "a", "c", "t", "i", "o", "n" >>
StrName == << "n", "a", "m", "e" >>
StrOn == << "o", "n" >>
StrBri == << "b", "r", "i" >>
StrHue == << "h", "u", "e" >>
StrSat == << "s", "a", "t" >>
StrXy == << "x", "y" >>
StrCt == << "c", "t" >>
StrEffect == << "e", "f", "f", "e", "c", "t" >>
StrClass == << "c", "l", "a", "s", "s" >>
StrBogus == << "b", "o", "g", "u", "s" >>
StrExtra == << "e", "x", "t", "r", "a" >>

Digits == << "0", "1", "2", "3", "4", "5", "6", "7", "8", "9" >>
IsDigit(c) == \E d \in 1..Len(Digits) : Digits[d] = c
DigitValue(c) == (CHOOSE d \in 1..Len(Digits) : Digits[d] = c) - 1

\* str::split('/'): the pieces between the separators, empty ones included.
RECURSIVE SplitLoop(_, _, _, _)
SplitLoop(str, i, piece, pieces) ==
    IF i > Len(str) THEN Append(pieces, piece)
    ELSE IF str[i] = "/" THEN SplitLoop(str, i + 1, << >>, Append(pieces, piece))
    ELSE SplitLoop(str, i + 1, Append(piece, str[i]), pieces)

Split(str) == SplitLoop(str, 1, << >>, << >>)

\* Iterator::next on the pieces: Some(piece) or None.
NextPiece(pieces, i) == IF i <= Len(pieces) THEN RSome(pieces[i]) ELSE RNone

\* The digits of a decimal numeral, most significant first.
RECURSIVE DigitsValue(_, _, _)
DigitsValue(str, i, acc) ==
    IF i > Len(str) THEN acc
    ELSE DigitsValue(str, i + 1, 10 * acc + DigitValue(str[i]))

\* A parse that falls back to 0.
ParseUsizeOrZero(str) ==
    LET body == IF Len(str) > 0 /\ str[1] = "+" THEN Tail(str) ELSE str
    IN IF Len(body) > 0 /\ \A i \in 1..Len(body) : IsDigit(body[i])
       THEN Good(DigitsValue(body, 1, 0))
       ELSE Good(0)

\* str::parse::<usize>: an optional '+', then one digit or more.  (The ids
\* of this model are short: none overflows usize.)
ParseUsize(str) ==
    LET body == IF Len(str) > 0 /\ str[1] = "+" THEN Tail(str) ELSE str
    IN IF Len(body) > 0 /\ \A i \in 1..Len(body) : IsDigit(body[i])
       THEN Good(DigitsValue(body, 1, 0))
       ELSE Bad

\* Number::as_u64: Some for a non-negative integer, None otherwise.
AsU64(num) == IF num.repr = "PosInt" THEN RSome(num.n) ELSE RNone

\* A cast that saturates at the largest value of the width.
AsUIntSaturating(x, bits) == IF x >= 2 ^ bits THEN 2 ^ bits - 1 ELSE x

\* `x as u8`, `x as u16` on a u64: the low bits.
AsUInt(x, bits) == x % (2 ^ bits)

\* The number of mantissa bits of an f32.
F32Mantissa == 24

\* The power of two by which a numerator has to be coarsened to fit the
\* mantissa of an f32.
RECURSIVE Coarsening(_, _)
Coarsening(m, q) == IF m < q * 2 ^ F32Mantissa THEN q ELSE Coarsening(m, 2 * q)

\* `x as f32` on the f64 m / 2^e: round the numerator to the mantissa, ties
\* to even.
AsF32(m, e) ==
    LET q == Coarsening(m, 1)
        down == m - (m % q)
        up == down + q
    IN [m |-> IF 2 * (m % q) < q THEN down
              ELSE IF 2 * (m % q) > q THEN up
              ELSE IF (down \div q) % 2 = 0 THEN down ELSE up,
        e |-> e]

\* Value::as_f64: Some for every number (an integer is converted), None for
\* everything else.
AsF64(j) == IF j.k = "num" THEN RSome([m |-> j.n, e |-> j.e]) ELSE RNone

(***************************************************************************)
(* bridge.rs: the Bridge operations                                        *)
(***************************************************************************)

\* What a request can meet: the transport fails before a body is read, or a
\* body arrives.
Exchanges ==
    {[transport |-> "ok", body |-> b] : b \in Bodies}
        \cup {[transport |-> t, body |-> NotJson] : t \in Transports \ {"ok"}}

\* What the bridge would answer to a second request of the same call.
LaterAnswers ==
    {[transport |-> "ok", body |-> JArr(<< OnlySuccess(MapOn) >>)],
     [transport |-> "send_failed", body |-> NotJson]}

\* The record of a call: the operation, the name of the type send decodes,
\* what the transport did and the body read, what a second request would
\* have met, the number of requests sent and what send returned.
CallOf(op, ty, x, y, s) ==
    [op |-> op, ty |-> ty, transport |-> x.transport, body |-> x.body,
     later |-> y, sent |-> 2 - Len(s.wire), got |-> s.res]

\* Bridge::get_light
GetLight ==
    /\ call = NoCall
    /\ \E x \in Exchanges, y \in LaterAnswers :
        LET s == SendVia(TypeNamed("Light"), << x, y >>)
        IN /\ call' = CallOf("get_light", "Light", x, y, s)
           /\ result' = s.res
    /\ UNCHANGED <<errIn, errCastOf, errOut, chIn, chTo, chOut, reg, cmd, calls>>

\* Bridge::set_light_state
SetLightState ==
    /\ call = NoCall
    /\ \E x \in Exchanges, y \in LaterAnswers :
        LET s == SendVia(TypeNamed("Vec<HueResponse<Map>>"), << x, y >>)
        IN /\ call' = CallOf("set_light_state", "Vec<HueResponse<Map>>", x, y, s)
           /\ result' = AndThenExtract(s.res)
    /\ UNCHANGED <<errIn, errCastOf, errOut, chIn, chTo, chOut, reg, cmd, calls>>

\* Bridge::set_group_state
SetGroupState ==
    /\ call = NoCall
    /\ \E x \in Exchanges, y \in LaterAnswers :
        LET s == SendVia(TypeNamed("Vec<HueResponse<Map>>"), << x, y >>)
        IN /\ call' = CallOf("set_group_state", "Vec<HueResponse<Map>>", x, y, s)
           /\ result' = AndThenExtract(s.res)
    /\ UNCHANGED <<errIn, errCastOf, errOut, chIn, chTo, chOut, reg, cmd, calls>>

\* Bridge::delete_light
DeleteLight ==
    /\ call = NoCall
    /\ \E x \in Exchanges, y \in LaterAnswers :
        LET s == SendVia(TypeNamed("Vec<HueResponse<Map>>"), << x, y >>)
        IN /\ call' = CallOf("delete_light", "Vec<HueResponse<Map>>", x, y, s)
           /\ result' = AndThenExtract(s.res)
    /\ UNCHANGED <<errIn, errCastOf, errOut, chIn, chTo, chOut, reg, cmd, calls>>

\* Bridge::delete_group
DeleteGroup ==
    /\ call = NoCall
    /\ \E x \in Exchanges, y \in LaterAnswers :
        LET s == SendVia(TypeNamed("Vec<HueResponse<String>>"), << x, y >>)
        IN /\ call' = CallOf("delete_group", "Vec<HueResponse<String>>", x, y, s)
           /\ result' = AndThenExtract(s.res)
    /\ UNCHANGED <<errIn, errCastOf, errOut, chIn, chTo, chOut, reg, cmd, calls>>

\* Bridge::create_group
CreateGroup ==
    /\ call = NoCall
    /\ \E x \in Exchanges, y \in LaterAnswers :
        LET s == SendVia(TypeNamed("HueResponse<Id<usize>>"), << x, y >>)
        IN /\ call' = CallOf("create_group", "HueResponse<Id<usize>>", x, y, s)
           /\ result' = IntoResultId(s.res)
    /\ UNCHANGED <<errIn, errCastOf, errOut, chIn, chTo, chOut, reg, cmd, calls>>

\* Bridge::create_scene
CreateScene ==
    /\ call = NoCall
    /\ \E x \in Exchanges, y \in LaterAnswers :
        LET s == SendVia(TypeNamed("HueResponse<Id<String>>"), << x, y >>)
        IN /\ call' = CallOf("create_scene", "HueResponse<Id<String>>", x, y, s)
           /\ result' = IntoResultId(s.res)
    /\ UNCHANGED <<errIn, errCastOf, errOut, chIn, chTo, chOut, reg, cmd, calls>>

StrHttp == << "h", "t", "t", "p", ":", "/", "/" >>
StrApi == << "/", "a", "p", "i", "/" >>

\* format!("http://{}/api/{}/", ip, username)
BridgeUrl(ip, username) == StrHttp \o ip \o StrApi \o username \o Slash

\* Iterator::nth(n), counted from 0, followed by unwrap(): Bad for the panic
\* on None.
NthUnwrap(pieces, n) ==
    IF NextPiece(pieces, n + 1).v = "Some" THEN Good(NextPiece(pieces, n + 1).x)
    ELSE Bad

\* Bridge::get_ip
GetIp(url) == NthUnwrap(Split(url), 2)

\* A getter that is one piece short.
GetUsernameOneShort(url) == NthUnwrap(Split(url), 3)

\* Bridge::get_username
GetUsername(url) == NthUnwrap(Split(url), 4)

\* The ips and usernames a Bridge is created with.
Ips ==
    {<< "t", "e", "s", "t" >>, << "1", "0", ".", "0", ".", "0", ".", "2" >>,
     << "a", "/", "b" >>, << "/" >>, << >>}
Usernames ==
    {<< "h", "e", "l", "l", "o" >>, << "a", "p", "i" >>, << "u", "/", "v" >>,
     << "x", "/" >>, << >>}

\* Bridge::new(ip, username), then get_ip() and get_username() on it
NewBridge ==
    /\ call = NoCall
    /\ \E ip \in Ips, username \in Usernames :
        \* no request is sent: there is no transport and no body
        /\ call' = [op |-> "Bridge::new", ty |-> "Bridge", transport |-> "none",
                    body |-> JNull, ip |-> ip, username |-> username]
        /\ result' = [r |-> "Bridge", url |-> BridgeUrl(ip, username),
                      get_ip |-> GetIp(BridgeUrl(ip, username)),
                      get_username |-> GetUsername(BridgeUrl(ip, username))]
    /\ UNCHANGED <<errIn, errCastOf, errOut, chIn, chTo, chOut, reg, cmd, calls>>

\* The instances of HueResponse whose into_result is called.
OutcomeTypes == {"HueResponse<Map>", "HueResponse<String>", "HueResponse<Light>"}

\* HueResponse::<T>::into_result on one decoded outcome
IntoResultOf ==
    /\ call = NoCall
    /\ \E ty \in OutcomeTypes, e \in Elements :
        /\ Deser(TypeNamed(ty), e).ok
        /\ call' = [op |-> "into_result", ty |-> ty, transport |-> "ok", body |-> e]
        /\ result' = IntoResult(Deser(TypeNamed(ty), e).val)
    /\ UNCHANGED <<errIn, errCastOf, errOut, chIn, chTo, chOut, reg, cmd, calls>>

Init ==
    /\ errIn = 0
    /\ errCastOf = "none"
    /\ errOut = "none"
    /\ call = NoCall
    /\ result = NoResult
    /\ chIn = NoChange
    /\ chTo = "none"
    /\ chOut = NoChange
    /\ reg = NoLoop
    /\ cmd = NoCommand
    /\ calls = << >>

Next ==
    \/ GetLight
    \/ SetLightState
    \/ SetGroupState
    \/ DeleteLight
    \/ DeleteGroup
    \/ CreateGroup
    \/ CreateScene
    \/ IntoResultOf
    \/ NewBridge

Spec == Init /\ [][Next]_vars

(***************************************************************************)
(* bridge.rs, examples/register_user.rs: registering a user                *)
(***************************************************************************)

\* json.rs: User
TUser == TStruct("User", << Field("username", TString) >>)

\* A panic of the calling thread.
Panicked == [r |-> "panic"]

\* register_user(ip, devicetype): one POST, the body decoded as
\* Vec<HueResponse<User>>, pop() taking its last element.
RegisterUser(transport, body) ==
    IF transport = "send_failed" THEN Err(HyperErrorKind)
    ELSE IF transport = "read_failed" THEN Err(JsonErrorKind)
    ELSE LET batch == Deser(TVec(THueResponse(TUser)), body)
         IN IF ~batch.ok THEN Err(JsonErrorKind)
            ELSE IF Len(batch.val.items) = 0 THEN Panicked
            ELSE LET one == IntoResult(batch.val.items[Len(batch.val.items)])
                 IN IF one.r = "Ok" THEN Ok(one.val.f[1]) ELSE one

\* A match that asks again after every bridge error.
LoopArmAnyBridgeError(res) ==
    IF res.r = "Ok" THEN "break"
    ELSE IF res.err.kind = "BridgeError" THEN "retry"
    ELSE "return"

\* The arms of the match in the loop: Ok, Err(BridgeError{error:
\* LinkButtonNotPressed, ..}), Err(e).
LoopArm(res) ==
    IF res.r = "Ok" THEN "break"
    ELSE IF res.err.kind = "BridgeError" /\ res.err.error = "LinkButtonNotPressed"
    THEN "retry"
    ELSE "return"

\* Longest run of answers the bridge is asked for.
MaxAnswers == 3

\* The answers of the bridge to POST /api.
UserObj(name) == JObj(<< Entry("username", JStr(name)) >>)
AnswerLink == [transport |-> "ok", body |-> JArr(<< OnlyError(ErrLink) >>)]
AnswerUser(name) ==
    [transport |-> "ok", body |-> JArr(<< OnlySuccess(UserObj(name)) >>)]
RegisteredNames == {"newuser", "other"}
RegisterAnswers ==
    {AnswerLink}
        \cup {AnswerUser(name) : name \in RegisteredNames}
        \cup {[transport |-> "ok", body |-> JArr(<< OnlyError(ErrOff) >>)],
              [transport |-> "ok",
               body |-> JArr(<< OnlySuccess(UserObj("newuser")), OnlyError(ErrLink) >>)],
              [transport |-> "ok", body |-> JArr(<< >>)],
              [transport |-> "ok", body |-> NotJson],
              [transport |-> "send_failed", body |-> NotJson]}
AnswerRuns == UNION {[1..n -> RegisterAnswers] : n \in 1..MaxAnswers}

\* register_user on each answer the bridge can give.
RegisterUserOn ==
    [a \in RegisterAnswers |-> RegisterUser(a.transport, a.body)]

InitRegister ==
    /\ errIn = 0
    /\ errCastOf = "none"
    /\ errOut = "none"
    /\ call = NoCall
    /\ result = NoResult
    /\ chIn = NoChange
    /\ chTo = "none"
    /\ chOut = NoChange
    /\ reg = NoLoop
    /\ cmd = NoCommand
    /\ calls = << >>

\* main enters the loop; `wire` is what the bridge will answer, `results`
\* what register_user has returned so far.
EnterLoop ==
    /\ reg = NoLoop
    /\ \E run \in AnswerRuns :
        reg' = [pc |-> "loop", wire |-> run, results |-> << >>, username |-> RNone]
    /\ UNCHANGED <<errIn, errCastOf, errOut, call, result, chIn, chTo, chOut, cmd, calls>>

\* One turn of the loop: register_user and the match on what it returned.
TryRegister ==
    /\ reg.pc = "loop"
    /\ Len(reg.wire) > 0
    /\ LET res == RegisterUserOn[Head(reg.wire)]
       IN reg' = [pc |-> IF res = Panicked THEN "panicked"
                         ELSE IF LoopArm(res) = "break" THEN "registered"
                         ELSE IF LoopArm(res) = "retry" THEN "loop"
                         ELSE "gave_up",
                  wire |-> Tail(reg.wire),
                  results |-> Append(reg.results, res),
                  username |-> IF res # Panicked /\ LoopArm(res) = "break"
                               THEN RSome(res.val) ELSE RNone]
    /\ UNCHANGED <<errIn, errCastOf, errOut, call, result, chIn, chTo, chOut, cmd, calls>>

NextRegister == EnterLoop \/ TryRegister

\* The loop runs in the main thread: a turn that can be taken is taken.
SpecRegister == InitRegister /\ [][NextRegister]_vars /\ WF_vars(TryRegister)

(***************************************************************************)
(* success.rs: Light::from(Success)                                        *)
(***************************************************************************)

\* A failed assert_eq!, unwrap() or index: the conversion panics.
Panic == [c |-> "panic"]
LightRecord(id, state) == [c |-> "Light", id |-> id, state |-> state]

\* The variants of State.
StateOn(b) == [st |-> "On", b |-> b]
StateBri(n) == [st |-> "Bri", n |-> n]
StateHue(n) == [st |-> "Hue", n |-> n]
StateSat(n) == [st |-> "Sat", n |-> n]
StateXy(x, y) == [st |-> "Xy", x |-> x, y |-> y]
StateCt(n) == [st |-> "Ct", n |-> n]
StateEffect(s) == [st |-> "Effect", s |-> s]
StateOther(state, val) == [st |-> "Other", state |-> state, val |-> val]

\* An integer field of the given width: as_u64().unwrap() as uN.  The result
\* is Good(n) or Bad for the panic of unwrap().
UnwrapAs(num, bits) ==
    IF AsU64(num).v = "Some" THEN Good(AsUInt(AsU64(num).x, bits)) ELSE Bad

\* The match on (state, v.1); Bad for a panic in an arm.
MatchState(state, val) ==
    IF state = StrOn /\ val.k = "bool" THEN Good(StateOn(val.b))
    ELSE IF state = StrBri /\ val.k = "num" THEN
        IF UnwrapAs(val, 8).ok THEN Good(StateBri(UnwrapAs(val, 8).val)) ELSE Bad
    ELSE IF state = StrHue /\ val.k = "num" THEN
        IF UnwrapAs(val, 16).ok THEN Good(StateHue(UnwrapAs(val, 16).val)) ELSE Bad
    ELSE IF state = StrSat /\ val.k = "num" THEN
        IF UnwrapAs(val, 8).ok THEN Good(StateSat(UnwrapAs(val, 8).val)) ELSE Bad
    ELSE IF state = StrXy /\ val.k = "arr" THEN
        \* v[0] and v[1] panic out of bounds, unwrap() on a non-number
        IF Len(val.a) >= 2 /\ AsF64(val.a[1]).v = "Some" /\ AsF64(val.a[2]).v = "Some"
        THEN Good(StateXy(AsF32(AsF64(val.a[1]).x.m, AsF64(val.a[1]).x.e),
                          AsF32(AsF64(val.a[2]).x.m, AsF64(val.a[2]).x.e)))
        ELSE Bad
    ELSE IF state = StrCt /\ val.k = "num" THEN
        IF UnwrapAs(val, 16).ok THEN Good(StateCt(UnwrapAs(val, 16).val)) ELSE Bad
    ELSE IF state = StrEffect /\ val.k = "str" THEN Good(StateEffect(val.s))
    ELSE Good(StateOther(state, val))

\* The match with the arm of hue copied from the arm of bri.
LightFromHueAsU8(path, val) ==
    LET s == Split(path)
    IN IF NextPiece(s, 1) # RSome(<< >>) THEN Panic
       ELSE IF NextPiece(s, 2) # RSome(StrLights) THEN Panic
       ELSE IF NextPiece(s, 3).v = "None" THEN Panic
       ELSE IF ~ParseUsize(NextPiece(s, 3).x).ok THEN Panic
       ELSE IF NextPiece(s, 4) # RSome(StrState) THEN Panic
       ELSE IF NextPiece(s, 5).v = "None" THEN Panic
       ELSE IF NextPiece(s, 5).x = StrHue /\ val.k = "num" /\ UnwrapAs(val, 8).ok
       THEN LightRecord(ParseUsize(NextPiece(s, 3).x).val,
                        StateHue(UnwrapAs(val, 8).val))
       ELSE IF ~MatchState(NextPiece(s, 5).x, val).ok THEN Panic
       ELSE LightRecord(ParseUsize(NextPiece(s, 3).x).val,
                        MatchState(NextPiece(s, 5).x, val).val)

\* A fallback arm that keeps the whole path instead of its last piece.
LightFromOtherWholePath(path, val) ==
    LET s == Split(path)
    IN IF NextPiece(s, 1) # RSome(<< >>) THEN Panic
       ELSE IF NextPiece(s, 2) # RSome(StrLights) THEN Panic
       ELSE IF NextPiece(s, 3).v = "None" THEN Panic
       ELSE IF ~ParseUsize(NextPiece(s, 3).x).ok THEN Panic
       ELSE IF NextPiece(s, 4) # RSome(StrState) THEN Panic
       ELSE IF NextPiece(s, 5).v = "None" THEN Panic
       ELSE IF ~MatchState(NextPiece(s, 5).x, val).ok THEN Panic
       ELSE IF MatchState(NextPiece(s, 5).x, val).val.st = "Other"
       THEN LightRecord(ParseUsize(NextPiece(s, 3).x).val, StateOther(path, val))
       ELSE LightRecord(ParseUsize(NextPiece(s, 3).x).val,
                        MatchState(NextPiece(s, 5).x, val).val)

\* impl From<Success> for Light
LightFrom(path, val) ==
    LET s == Split(path)
    IN IF NextPiece(s, 1) # RSome(<< >>) THEN Panic
       ELSE IF NextPiece(s, 2) # RSome(StrLights) THEN Panic
       ELSE IF NextPiece(s, 3).v = "None" THEN Panic
       ELSE IF ~ParseUsize(NextPiece(s, 3).x).ok THEN Panic
       ELSE IF NextPiece(s, 4) # RSome(StrState) THEN Panic
       ELSE IF NextPiece(s, 5).v = "None" THEN Panic
       ELSE IF ~MatchState(NextPiece(s, 5).x, val).ok THEN Panic
       ELSE LightRecord(ParseUsize(NextPiece(s, 3).x).val,
                        MatchState(NextPiece(s, 5).x, val).val)

(***************************************************************************)
(* success.rs: Rename::from(Success)                                       *)
(***************************************************************************)

RenameRecord(id, name) == [c |-> "Rename", id |-> id, name |-> name]

\* Value::as_str: Some for a string, None for everything else.
ValueAsStr(j) == IF j.k = "str" THEN RSome(j.s) ELSE RNone

\* A conversion that falls back to the empty name.
RenameFromDefaultName(path, val) ==
    LET s == Split(path)
    IN IF NextPiece(s, 1) # RSome(<< >>) THEN Panic
       ELSE IF NextPiece(s, 2) # RSome(StrLights) THEN Panic
       ELSE IF NextPiece(s, 3).v = "None" THEN Panic
       ELSE IF ~ParseUsize(NextPiece(s, 3).x).ok THEN Panic
       ELSE IF NextPiece(s, 4) # RSome(StrName) THEN Panic
       ELSE IF ValueAsStr(val).v = "None"
       THEN RenameRecord(ParseUsize(NextPiece(s, 3).x).val, "")
       ELSE RenameRecord(ParseUsize(NextPiece(s, 3).x).val, ValueAsStr(val).x)

\* impl From<Success> for Rename
RenameFrom(path, val) ==
    LET s == Split(path)
    IN IF NextPiece(s, 1) # RSome(<< >>) THEN Panic
       ELSE IF NextPiece(s, 2) # RSome(StrLights) THEN Panic
       ELSE IF NextPiece(s, 3).v = "None" THEN Panic
       ELSE IF ~ParseUsize(NextPiece(s, 3).x).ok THEN Panic
       ELSE IF NextPiece(s, 4) # RSome(StrName) THEN Panic
       ELSE IF ValueAsStr(val).v = "None" THEN Panic
       ELSE RenameRecord(ParseUsize(NextPiece(s, 3).x).val, ValueAsStr(val).x)

(***************************************************************************)
(* success.rs: Delete::from(String)                                        *)
(***************************************************************************)

DeleteRecord(id) == [c |-> "Delete", id |-> id]

StrDeletedWord == << "d", "e", "l", "e", "t", "e", "d" >>
StrLightsPrefix == Slash \o StrLights \o Slash
StrGroupsPrefix == Slash \o StrGroups \o Slash

\* The length of "/lights/" and of "/groups/", at which the string is cut.
PrefixLen == 8

\* str::split_at(mid): the two halves, or Bad for the panic when mid is past
\* the end.  (The strings of this model are ASCII: every index is a
\* character boundary.)
SplitAt(str, mid) ==
    IF mid > Len(str) THEN Bad
    ELSE Good([head |-> SubSeq(str, 1, mid), rest |-> SubSeq(str, mid + 1, Len(str))])

\* str::find(' '): the byte index of the first space, counted from 0.
RECURSIVE FindFrom(_, _)
FindFrom(str, i) ==
    IF i > Len(str) THEN RNone
    ELSE IF str[i] = " " THEN RSome(i - 1)
    ELSE FindFrom(str, i + 1)

FindSpace(str) == FindFrom(str, 1)

\* A conversion that tests how the rest starts instead of what it is.
DeleteFromStartsWith(str) ==
    IF ~SplitAt(str, PrefixLen).ok THEN Panic
    ELSE LET lights == SplitAt(str, PrefixLen).val.head
             id_deleted == SplitAt(str, PrefixLen).val.rest
         IN IF ~(lights = StrLightsPrefix \/ lights = StrGroupsPrefix) THEN Panic
            ELSE IF FindSpace(id_deleted).v = "None" THEN Panic
            ELSE LET space == FindSpace(id_deleted).x
                     id == SplitAt(id_deleted, space).val.head
                     deleted == SplitAt(id_deleted, space).val.rest
                 IN IF Len(deleted) < 8
                       \/ SubSeq(deleted, 1, 8) # << " " >> \o StrDeletedWord
                    THEN Panic
                    ELSE IF ~ParseUsize(id).ok THEN Panic
                    ELSE DeleteRecord(ParseUsize(id).val)

\* impl From<String> for Delete
DeleteFrom(str) ==
    IF ~SplitAt(str, PrefixLen).ok THEN Panic
    ELSE LET lights == SplitAt(str, PrefixLen).val.head
             id_deleted == SplitAt(str, PrefixLen).val.rest
         IN IF ~(lights = StrLightsPrefix \/ lights = StrGroupsPrefix) THEN Panic
            ELSE IF FindSpace(id_deleted).v = "None" THEN Panic
            ELSE LET space == FindSpace(id_deleted).x
                     id == SplitAt(id_deleted, space).val.head
                     deleted == SplitAt(id_deleted, space).val.rest
                 IN IF deleted # StrDeletedWord THEN Panic
                    ELSE IF ~ParseUsize(id).ok THEN Panic
                    ELSE DeleteRecord(ParseUsize(id).val)

(***************************************************************************)
(* success.rs: Group::from(Success)                                        *)
(***************************************************************************)

GroupRecord(id, attrib) == [c |-> "Group", id |-> id, attrib |-> attrib]

\* The variants of Attrib.
AttribName(s) == [at |-> "Name", s |-> s]
AttribLights(ids) == [at |-> "Lights", ids |-> ids]
AttribClass(s) == [at |-> "Class", s |-> s]

\* Value::as_u64: Some for a number that is a non-negative integer.
ValueAsU64(j) == IF j.k = "num" THEN AsU64(j) ELSE RNone

\* v.iter().map(|u| u.as_u64().unwrap() as usize).collect(); Bad for the
\* panic of unwrap().  (usize has the width of u64.)
CollectLights(a) ==
    IF \A i \in 1..Len(a) : ValueAsU64(a[i]).v = "Some"
    THEN Good([i \in 1..Len(a) |-> ValueAsU64(a[i]).x])
    ELSE Bad

\* The match on (attrib, v.1); Bad for a panic.
MatchAttrib(attrib, val) ==
    IF attrib = StrName /\ val.k = "str" THEN Good(AttribName(val.s))
    ELSE IF attrib = StrClass /\ val.k = "str" THEN Good(AttribClass(val.s))
    ELSE IF attrib = StrLights /\ val.k = "arr" THEN
        IF CollectLights(val.a).ok THEN Good(AttribLights(CollectLights(val.a).val))
        ELSE Bad
    ELSE Bad

\* The sequence back to front.
Reversed(q) == [i \in 1..Len(q) |-> q[Len(q) + 1 - i]]

\* A conversion that collects the lights back to front.
GroupFromLightsReversed(path, val) ==
    LET s == Split(path)
    IN IF NextPiece(s, 1) # RSome(<< >>) THEN Panic
       ELSE IF NextPiece(s, 2) # RSome(StrGroups) THEN Panic
       ELSE IF NextPiece(s, 3).v = "None" THEN Panic
       ELSE IF ~ParseUsize(NextPiece(s, 3).x).ok THEN Panic
       ELSE IF NextPiece(s, 4).v = "None" THEN Panic
       ELSE IF ~MatchAttrib(NextPiece(s, 4).x, val).ok THEN Panic
       ELSE IF MatchAttrib(NextPiece(s, 4).x, val).val.at = "Lights"
       THEN GroupRecord(ParseUsize(NextPiece(s, 3).x).val,
                        AttribLights(Reversed(MatchAttrib(NextPiece(s, 4).x, val).val.ids)))
       ELSE GroupRecord(ParseUsize(NextPiece(s, 3).x).val,
                        MatchAttrib(NextPiece(s, 4).x, val).val)

\* impl From<Success> for Group
GroupFrom(path, val) ==
    LET s == Split(path)
    IN IF NextPiece(s, 1) # RSome(<< >>) THEN Panic
       ELSE IF NextPiece(s, 2) # RSome(StrGroups) THEN Panic
       ELSE IF NextPiece(s, 3).v = "None" THEN Panic
       ELSE IF ~ParseUsize(NextPiece(s, 3).x).ok THEN Panic
       ELSE IF NextPiece(s, 4).v = "None" THEN Panic
       ELSE IF ~MatchAttrib(NextPiece(s, 4).x, val).ok THEN Panic
       ELSE GroupRecord(ParseUsize(NextPiece(s, 3).x).val,
                        MatchAttrib(NextPiece(s, 4).x, val).val)

(***************************************************************************)
(* The success notifications handed to the interpreters                    *)
(***************************************************************************)

\* The pieces a path is put together from.
FirstPieces == {<< >>, << "x" >>}
CollectionPieces == {StrLights, StrGroups}
IdPieces ==
    {<< "5" >>, << "3" >>, << "1", "2" >>, << "+", "5" >>, << "a", "b", "c" >>, << >>}
MiddlePieces == {StrState, StrName, StrClass, StrLights, StrAction}
FieldPieces ==
    {StrOn, StrBri, StrHue, StrSat, StrXy, StrCt, StrEffect, StrBogus, StrName}

\* first/collection/id/middle/field/extra, and every prefix of it with two
\* pieces or more.
LongestPaths ==
    {<< a, b, c, d, e, StrExtra >> :
        a \in FirstPieces, b \in CollectionPieces, c \in IdPieces,
        d \in MiddlePieces, e \in FieldPieces}
PathPieces == {SubSeq(l, 1, n) : l \in LongestPaths, n \in 2..6}

\* The pieces joined by '/'.
RECURSIVE Join(_)
Join(pieces) ==
    IF Len(pieces) = 1 THEN pieces[1]
    ELSE pieces[1] \o Slash \o Join(Tail(pieces))

\* The values a notification carries.
ChangeValues ==
    {JBool(TRUE), JBool(FALSE),
     JPosInt(0), JPosInt(200), JPosInt(255), JPosInt(300), JPosInt(65535),
     JPosInt(70000), JNegInt(0 - 1), JFloat(3, 1),
     JStr("colorloop"), JStr("x"),
     JArr(<< JFloat(1, 1), JFloat(1, 2) >>),
     JArr(<< JPosInt(1), JPosInt(0) >>),
     JArr(<< JPosInt(16777217), JFloat(5, 3) >>),
     JArr(<< JPosInt(1), JPosInt(2), JPosInt(3) >>),
     JArr(<< JFloat(1, 1) >>), JArr(<< >>),
     JArr(<< JStr("x"), JPosInt(1) >>),
     JNull, JObj(<< >>)}

\* Success(path, value); `pieces` records what the path was put together from.
SuccessOf(pieces, val) ==
    [c |-> "Success", pieces |-> pieces, path |-> Join(pieces), val |-> val]

InitChange ==
    /\ errIn = 0
    /\ errCastOf = "none"
    /\ errOut = "none"
    /\ call = NoCall
    /\ result = NoResult
    /\ chIn = NoChange
    /\ chTo = "none"
    /\ chOut = NoChange
    /\ reg = NoLoop
    /\ cmd = NoCommand
    /\ calls = << >>

\* Light::from(Success(path, value))
InterpretLight ==
    /\ chIn = NoChange
    /\ \E pieces \in PathPieces, val \in ChangeValues :
        /\ chIn' = SuccessOf(pieces, val)
        /\ chTo' = "Light"
        /\ chOut' = LightFrom(Join(pieces), val)
    /\ UNCHANGED <<errIn, errCastOf, errOut, call, result, reg, cmd, calls>>

\* Rename::from(Success(path, value))
InterpretRename ==
    /\ chIn = NoChange
    /\ \E pieces \in PathPieces, val \in ChangeValues :
        /\ chIn' = SuccessOf(pieces, val)
        /\ chTo' = "Rename"
        /\ chOut' = RenameFrom(Join(pieces), val)
    /\ UNCHANGED <<errIn, errCastOf, errOut, call, result, reg, cmd, calls>>

\* Group::from(Success(path, value))
InterpretGroup ==
    /\ chIn = NoChange
    /\ \E pieces \in PathPieces, val \in ChangeValues :
        /\ chIn' = SuccessOf(pieces, val)
        /\ chTo' = "Group"
        /\ chOut' = GroupFrom(Join(pieces), val)
    /\ UNCHANGED <<errIn, errCastOf, errOut, call, result, reg, cmd, calls>>

\* The strings a delete acknowledgement is put together from.
AckPrefixes == {<< >>, StrLightsPrefix, StrGroupsPrefix, Slash \o StrState \o << "s" >> \o Slash}
AckIds == {<< "5" >>, << "1", "2" >>, << "a", "b", "c" >>, << >>}
AckWords ==
    {<< " " >> \o StrDeletedWord,
     << " ", "r", "e", "m", "o", "v", "e", "d" >>,
     << >>,
     << " " >> \o StrDeletedWord \o << "!" >>,
     StrDeletedWord,
     << " " >> \o StrDeletedWord \o << " " >> \o StrDeletedWord,
     << " ", " " >> \o StrDeletedWord}
AckOf(prefix, id, word) ==
    [c |-> "String", prefix |-> prefix, id |-> id, word |-> word,
     str |-> prefix \o id \o word]

\* Delete::from(String)
InterpretDelete ==
    /\ chIn = NoChange
    /\ \E prefix \in AckPrefixes, id \in AckIds, word \in AckWords :
        /\ chIn' = AckOf(prefix, id, word)
        /\ chTo' = "Delete"
        /\ chOut' = DeleteFrom(prefix \o id \o word)
    /\ UNCHANGED <<errIn, errCastOf, errOut, call, result, reg, cmd, calls>>

NextChange ==
    \/ InterpretLight
    \/ InterpretRename
    \/ InterpretGroup
    \/ InterpretDelete

SpecChange == InitChange /\ [][NextChange]_vars

(***************************************************************************)
(* hue.rs: LightCommand and its builders                                   *)
(***************************************************************************)

\* The number of builder calls chained on one command.
MaxCalls == 3

\* A pair, (f32, f32) or (i16, i16).
RPair(x, y) == [v |-> "pair", x |-> x, y |-> y]

\* The arguments the builders are called with.
U8Values == {0, 255}
U16Values == {0, 65535}
I16Values == {0 - 254, 254}
XyValues == {RPair([m |-> 1, e |-> 1], [m |-> 1, e |-> 2]),
             RPair([m |-> 0, e |-> 0], [m |-> 3, e |-> 1])}
XyIncValues == {RPair(RInt(0 - 1), RInt(1)), RPair(RInt(1), RInt(0))}
AlertValues == {"select", "lselect"}
EffectValues == {"none", "colorloop"}

\* The fields of LightCommand, in the order of their declaration.
CommandFields ==
    {"on", "bri", "hue", "sat", "xy",
     "ct", "alert", "effect", "transitiontime", "bri_inc",
     "sat_inc", "hue_inc", "ct_inc", "xy_inc"}

\* LightCommand::default(): #[derive(Default)] makes every Option None.
LightCommandDefault == [f \in CommandFields |-> RNone]

\* The call recorded in the history: the builder, the field it is for and
\* the argument it was given.
Called(builder, field, value) ==
    calls' = Append(calls, [builder |-> builder, field |-> field, value |-> value])

InitCommand ==
    /\ errIn = 0
    /\ errCastOf = "none"
    /\ errOut = "none"
    /\ call = NoCall
    /\ result = NoResult
    /\ chIn = NoChange
    /\ chTo = "none"
    /\ chOut = NoChange
    /\ reg = NoLoop
    /\ cmd = LightCommandDefault
    /\ calls = << >>

\* LightCommand::on(self): LightCommand { on: Some(..), ..self }
On ==
    /\ Len(calls) < MaxCalls
    /\ cmd' = [cmd EXCEPT !.on = RSome(RBool(TRUE))]
    /\ Called("on", "on", RBool(TRUE))
    /\ UNCHANGED <<errIn, errCastOf, errOut, call, result, chIn, chTo, chOut, reg>>

\* An off that was copied from on and kept its value.
OffTurnsOn ==
    /\ Len(calls) < MaxCalls
    /\ cmd' = [cmd EXCEPT !.on = RSome(RBool(TRUE))]
    /\ Called("off", "on", RBool(FALSE))
    /\ UNCHANGED <<errIn, errCastOf, errOut, call, result, chIn, chTo, chOut, reg>>

\* LightCommand::off(self): LightCommand { on: Some(..), ..self }
Off ==
    /\ Len(calls) < MaxCalls
    /\ cmd' = [cmd EXCEPT !.on = RSome(RBool(FALSE))]
    /\ Called("off", "on", RBool(FALSE))
    /\ UNCHANGED <<errIn, errCastOf, errOut, call, result, chIn, chTo, chOut, reg>>

\* LightCommand::with_bri(self, b): LightCommand { bri: Some(..), ..self }
WithBri ==
    /\ Len(calls) < MaxCalls
    /\ \E b \in U8Values :
        /\ cmd' = [cmd EXCEPT !.bri = RSome(RInt(b))]
        /\ Called("with_bri", "bri", RInt(b))
    /\ UNCHANGED <<errIn, errCastOf, errOut, call, result, chIn, chTo, chOut, reg>>

\* LightCommand::with_hue(self, h): LightCommand { hue: Some(..), ..self }
WithHue ==
    /\ Len(calls) < MaxCalls
    /\ \E h \in U16Values :
        /\ cmd' = [cmd EXCEPT !.hue = RSome(RInt(h))]
        /\ Called("with_hue", "hue", RInt(h))
    /\ UNCHANGED <<errIn, errCastOf, errOut, call, result, chIn, chTo, chOut, reg>>

\* LightCommand::with_sat(self, s): LightCommand { sat: Some(..), ..self }
WithSat ==
    /\ Len(calls) < MaxCalls
    /\ \E s \in U8Values :
        /\ cmd' = [cmd EXCEPT !.sat = RSome(RInt(s))]
        /\ Called("with_sat", "sat", RInt(s))
    /\ UNCHANGED <<errIn, errCastOf, errOut, call, result, chIn, chTo, chOut, reg>>

\* LightCommand::with_xy(self, xy): LightCommand { xy: Some(..), ..self }
WithXy ==
    /\ Len(calls) < MaxCalls
    /\ \E xy \in XyValues :
        /\ cmd' = [cmd EXCEPT !.xy = RSome(xy)]
        /\ Called("with_xy", "xy", xy)
    /\ UNCHANGED <<errIn, errCastOf, errOut, call, result, chIn, chTo, chOut, reg>>

\* LightCommand::with_ct(self, c): LightCommand { ct: Some(..), ..self }
WithCt ==
    /\ Len(calls) < MaxCalls
    /\ \E c \in U16Values :
        /\ cmd' = [cmd EXCEPT !.ct = RSome(RInt(c))]
        /\ Called("with_ct", "ct", RInt(c))
    /\ UNCHANGED <<errIn, errCastOf, errOut, call, result, chIn, chTo, chOut, reg>>

\* LightCommand::with_alert(self, a): LightCommand { alert: Some(..), ..self }
WithAlert ==
    /\ Len(calls) < MaxCalls
    /\ \E a \in AlertValues :
        /\ cmd' = [cmd EXCEPT !.alert = RSome(RStr(a))]
        /\ Called("with_alert", "alert", RStr(a))
    /\ UNCHANGED <<errIn, errCastOf, errOut, call, result, chIn, chTo, chOut, reg>>

\* LightCommand::with_effect(self, a): LightCommand { effect: Some(..), ..self }
WithEffect ==
    /\ Len(calls) < MaxCalls
    /\ \E a \in EffectValues :
        /\ cmd' = [cmd EXCEPT !.effect = RSome(RStr(a))]
        /\ Called("with_effect", "effect", RStr(a))
    /\ UNCHANGED <<errIn, errCastOf, errOut, call, result, chIn, chTo, chOut, reg>>

\* LightCommand::with_transitiontime(self, a): LightCommand { transitiontime: Some(..), ..self }
WithTransitiontime ==
    /\ Len(calls) < MaxCalls
    /\ \E a \in U16Values :
        /\ cmd' = [cmd EXCEPT !.transitiontime = RSome(RInt(a))]
        /\ Called("with_transitiontime", "transitiontime", RInt(a))
    /\ UNCHANGED <<errIn, errCastOf, errOut, call, result, chIn, chTo, chOut, reg>>

\* LightCommand::with_bri_inc(self, b): LightCommand { bri_inc: Some(..), ..self }
WithBriInc ==
    /\ Len(calls) < MaxCalls
    /\ \E b \in I16Values :
        /\ cmd' = [cmd EXCEPT !.bri_inc = RSome(RInt(b))]
        /\ Called("with_bri_inc", "bri_inc", RInt(b))
    /\ UNCHANGED <<errIn, errCastOf, errOut, call, result, chIn, chTo, chOut, reg>>

\* LightCommand::with_hue_inc(self, h): LightCommand { hue_inc: Some(..), ..self }
WithHueInc ==
    /\ Len(calls) < MaxCalls
    /\ \E h \in I16Values :
        /\ cmd' = [cmd EXCEPT !.hue_inc = RSome(RInt(h))]
        /\ Called("with_hue_inc", "hue_inc", RInt(h))
    /\ UNCHANGED <<errIn, errCastOf, errOut, call, result, chIn, chTo, chOut, reg>>

\* LightCommand::with_sat_inc(self, s): LightCommand { sat_inc: Some(..), ..self }
WithSatInc ==
    /\ Len(calls) < MaxCalls
    /\ \E s \in I16Values :
        /\ cmd' = [cmd EXCEPT !.sat_inc = RSome(RInt(s))]
        /\ Called("with_sat_inc", "sat_inc", RInt(s))
    /\ UNCHANGED <<errIn, errCastOf, errOut, call, result, chIn, chTo, chOut, reg>>

\* LightCommand::with_ct_inc(self, ct): LightCommand { ct_inc: Some(..), ..self }
WithCtInc ==
    /\ Len(calls) < MaxCalls
    /\ \E ct \in I16Values :
        /\ cmd' = [cmd EXCEPT !.ct_inc = RSome(RInt(ct))]
        /\ Called("with_ct_inc", "ct_inc", RInt(ct))
    /\ UNCHANGED <<errIn, errCastOf, errOut, call, result, chIn, chTo, chOut, reg>>

\* LightCommand::with_xy_inc(self, xy): LightCommand { xy_inc: Some(..), ..self }
WithXyInc ==
    /\ Len(calls) < MaxCalls
    /\ \E xy \in XyIncValues :
        /\ cmd' = [cmd EXCEPT !.xy_inc = RSome(xy)]
        /\ Called("with_xy_inc", "xy_inc", xy)
    /\ UNCHANGED <<errIn, errCastOf, errOut, call, result, chIn, chTo, chOut, reg>>

NextCommand ==
    \/ On
    \/ Off
    \/ WithBri
    \/ WithHue
    \/ WithSat
    \/ WithXy
    \/ WithCt
    \/ WithAlert
    \/ WithEffect
    \/ WithTransitiontime
    \/ WithBriInc
    \/ WithHueInc
    \/ WithSatInc
    \/ WithCtInc
    \/ WithXyInc

SpecCommand == InitCommand /\ [][NextCommand]_vars

(***************************************************************************)
(* Claims on the response envelope                                         *)
(***************************************************************************)

\* The operations that decode the body as a batch and hand it to extract,
\* and the payload type of their outcomes.
BatchOps == {"set_light_state", "set_group_state", "delete_light", "delete_group"}
BatchPayload(op) == IF op = "delete_group" THEN TString ELSE TMap

\* An object with the single key `success` and a payload of type P.
IsSuccessOutcome(P, e) ==
    /\ e.k = "obj" /\ Len(e.o) = 1 /\ e.o[1].key = "success"
    /\ e.o[1].val.k # "null"
    /\ Deser(P, e.o[1].val).ok

\* An object with the single key `error` and an {address, description, type}
\* object under it.
IsErrorOutcome(e) ==
    /\ e.k = "obj" /\ Len(e.o) = 1 /\ e.o[1].key = "error"
    /\ e.o[1].val.k = "obj"
    /\ Deser(TError, e.o[1].val).ok

IsOutcomeArray(P, body) ==
    /\ body.k = "arr"
    /\ \A i \in 1..Len(body.a) :
          IsSuccessOutcome(P, body.a[i]) \/ IsErrorOutcome(body.a[i])

\* A batch operation received an array of outcome objects.
BatchCase ==
    /\ call.op \in BatchOps
    /\ call.transport = "ok"
    /\ IsOutcomeArray(BatchPayload(call.op), call.body)

\* C3: for every body that is an array of outcome objects (successes and
\* errors in any mix), a batch operation returns a batch as long as the
\* array, and outcome i of it is element i of the array.
C3_LengthAndOrder ==
    BatchCase =>
        /\ result.r = "Ok"
        /\ Len(result.val.items) = Len(call.body.a)
        /\ \A i \in 1..Len(call.body.a) :
              IsSuccessOutcome(BatchPayload(call.op), call.body.a[i]) =>
                  result.val.items[i]
                      = Deser(BatchPayload(call.op), call.body.a[i].o[1].val).val

\* C4: an outcome object with both a `success` and an `error` key decodes to
\* a malformed-response failure; into_result prefers neither key.
C4_BothKeysMalformed ==
    (/\ call.op = "into_result"
     /\ call.body.k = "obj"
     /\ HasKey(call.body, "success") /\ GetKey(call.body, "success").k # "null"
     /\ HasKey(call.body, "error") /\ GetKey(call.body, "error").k # "null")
        => result.r = "Err" /\ result.err.kind = "Msg"

\* C5: an outcome object with neither a `success` nor an `error` key decodes
\* to the malformed-response failure, never to a success value; a batch
\* operation that meets one as its only outcome fails the same way.
C5_NeitherKeyMalformed ==
    /\ (/\ call.op = "into_result"
        /\ call.body.k = "obj"
        /\ ~HasKey(call.body, "success") /\ ~HasKey(call.body, "error"))
          => result = Err(MsgKind("Malformed repsonse"))
    /\ (/\ call.op \in BatchOps
        /\ call.transport = "ok"
        /\ call.body.k = "arr" /\ Len(call.body.a) = 1
        /\ call.body.a[1].k = "obj"
        /\ ~HasKey(call.body.a[1], "success") /\ ~HasKey(call.body.a[1], "error"))
          => result = Err(MsgKind("Malformed repsonse"))

\* C5 witness: into_result has been applied to an object with neither key.
C5_Witness ==
    /\ call.op = "into_result"
    /\ call.body = IdNum
    /\ result.r = "Err"

\* C6: a bridge error in one outcome is not fatal to the batch: from an
\* array with success and error outcomes the caller of a batch operation
\* gets a batch in which every success outcome is still present.
C6_MixedBatchDelivered ==
    (/\ BatchCase
     /\ \E i \in 1..Len(call.body.a) : IsErrorOutcome(call.body.a[i])
     /\ \E i \in 1..Len(call.body.a) :
           IsSuccessOutcome(BatchPayload(call.op), call.body.a[i]))
        => /\ result.r = "Ok"
           /\ \A i \in 1..Len(call.body.a) :
                 IsSuccessOutcome(BatchPayload(call.op), call.body.a[i]) =>
                     \E n \in 1..Len(result.val.items) :
                         result.val.items[n]
                             = Deser(BatchPayload(call.op),
                                     call.body.a[i].o[1].val).val

\* An operation of the Bridge received the empty array.
EmptyArrayCase ==
    /\ call.op # "none" /\ call.op # "into_result"
    /\ call.transport = "ok"
    /\ call.body = JArr(<< >>)

\* C7 as claimed: the empty array is an empty batch and no error, whatever
\* type the operation decodes.
C7_EmptyNeverAnError ==
    EmptyArrayCase => result = Ok(RVec(<< >>))

\* C7 as amended: the empty array is an empty batch for the operations that
\* decode a batch and call extract; for an operation that decodes a single
\* value, send's fallback reports "Malformed response".
C7_EmptyBatchOrMalformed ==
    EmptyArrayCase =>
        IF call.op \in BatchOps THEN result = Ok(RVec(<< >>))
        ELSE result = Err(MsgKind("Malformed response"))

\* C7 witness: a batch operation has decoded the empty array.
C7_Witness ==
    /\ call.op = "set_light_state"
    /\ call.body = JArr(<< >>)
    /\ result = Ok(RVec(<< >>))

\* The outcome handed to into_result carries an error and no success.
ErrorOutcomeCase ==
    /\ call.op = "into_result"
    /\ call.body.k = "obj"
    /\ HasKey(call.body, "error") /\ GetKey(call.body, "error").k = "obj"
    /\ ~HasKey(call.body, "success") \/ GetKey(call.body, "success").k = "null"

\* C8: an error outcome {address, description, type} is surfaced as a
\* BridgeError-kind error with exactly the address and description of the
\* error object and the code BridgeError::from(type); it becomes neither a
\* success nor an error of another kind.  The same holds for a batch
\* operation whose only outcome is the error.
C8_ErrorOutcomeSurfaced ==
    /\ ErrorOutcomeCase =>
          LET e == GetKey(call.body, "error")
          IN result = Err(BridgeErrorKind(GetKey(e, "address").s,
                                          GetKey(e, "description").s,
                                          BridgeErrorFrom(GetKey(e, "type").n)))
    /\ (BatchCase /\ Len(call.body.a) = 1 /\ IsErrorOutcome(call.body.a[1])) =>
          LET e == GetKey(call.body.a[1], "error")
          IN result = Err(BridgeErrorKind(GetKey(e, "address").s,
                                          GetKey(e, "description").s,
                                          BridgeErrorFrom(GetKey(e, "type").n)))

\* C8 witness: an error outcome with a documented code has been decoded.
C8_Witness ==
    /\ call.op = "into_result"
    /\ call.body = OnlyError(ErrOff)
    /\ result.r = "Err"
    /\ result.err.kind = "BridgeError"
    /\ result.err.error = "DeviceIsSetToOff"

\* The body is an array each of whose elements decodes as an outcome
\* wrapping T.
IsArrayOfOutcomes(T, body) ==
    /\ body.k = "arr"
    /\ \A i \in 1..Len(body.a) : Deser(THueResponse(T), body.a[i]).ok

\* An operation received valid JSON that is neither the value it decodes
\* nor an array of outcomes.
NeitherShapeCase ==
    /\ call.op # "none" /\ call.op # "into_result"
    /\ call.transport = "ok"
    /\ call.body # NotJson
    /\ ~Deser(TypeNamed(call.ty), call.body).ok
    /\ ~IsArrayOfOutcomes(TypeNamed(call.ty), call.body)

IsDecimal(str) == Len(str) > 0 /\ \A i \in 1..Len(str) : str[i] \in {"0", "1", "2", "3", "4", "5", "6", "7", "8", "9"}
DecimalOf(str) ==
    IF Len(str) = 1 THEN DigitValue(str[1])
    ELSE 10 * DigitValue(str[1]) + DigitValue(str[2])

\* The light interpreter was given "/lights/<id>/state/<field>" with a
\* decimal id.
LightStateCase ==
    /\ chTo = "Light"
    /\ chIn.c = "Success"
    /\ chOut.c \in {"Light", "panic"}
    /\ Len(chIn.pieces) = 5
    /\ chIn.pieces[1] = << >>
    /\ chIn.pieces[2] = StrLights
    /\ IsDecimal(chIn.pieces[3])
    /\ chIn.pieces[4] = StrState

\* A number that is an integer of the given width.
IsUInt(val, bits) ==
    val.k = "num" /\ val.repr = "PosInt" /\ val.n < 2 ^ bits

\* An array of exactly two numbers, each an f32.
IsF32Pair(val) ==
    /\ val.k = "arr" /\ Len(val.a) = 2
    /\ \A i \in 1..2 : val.a[i].k = "num" /\ val.a[i].n < 2 ^ 24

\* C10: for "/lights/<id>/state/<field>" with a numeric id and a known field
\* with a value of the type of its variant (a boolean for on, a u8 for bri
\* and sat, a u16 for hue and ct, two numbers for xy, a string for effect),
\* the light interpreter yields Light{id, state} with the typed variant
\* carrying the value: ("/lights/5/state/bri", 200) gives
\* Light{id: 5, state: Bri(200)}.
C10_LightTypedVariant ==
    LightStateCase =>
        LET id == DecimalOf(chIn.pieces[3])
            field == chIn.pieces[5]
            val == chIn.val
        IN /\ (field = StrOn /\ val.k = "bool")
                 => chOut = [c |-> "Light", id |-> id,
                             state |-> [st |-> "On", b |-> val.b]]
           /\ (field = StrBri /\ IsUInt(val, 8))
                 => chOut = [c |-> "Light", id |-> id,
                             state |-> [st |-> "Bri", n |-> val.n]]
           /\ (field = StrHue /\ IsUInt(val, 16))
                 => chOut = [c |-> "Light", id |-> id,
                             state |-> [st |-> "Hue", n |-> val.n]]
           /\ (field = StrSat /\ IsUInt(val, 8))
                 => chOut = [c |-> "Light", id |-> id,
                             state |-> [st |-> "Sat", n |-> val.n]]
           /\ (field = StrCt /\ IsUInt(val, 16))
                 => chOut = [c |-> "Light", id |-> id,
                             state |-> [st |-> "Ct", n |-> val.n]]
           /\ (field = StrXy /\ IsF32Pair(val))
                 => chOut = [c |-> "Light", id |-> id,
                             state |-> [st |-> "Xy",
                                        x |-> [m |-> val.a[1].n, e |-> val.a[1].e],
                                        y |-> [m |-> val.a[2].n, e |-> val.a[2].e]]]
           /\ (field = StrEffect /\ val.k = "str")
                 => chOut = [c |-> "Light", id |-> id,
                             state |-> [st |-> "Effect", s |-> val.s]]

\* C10 witness: ("/lights/5/state/bri", 200) has been interpreted.
C10_Witness ==
    /\ chTo = "Light"
    /\ chIn.c = "Success"
    /\ chIn.path = << "/", "l", "i", "g", "h", "t", "s", "/", "5", "/",
                      "s", "t", "a", "t", "e", "/", "b", "r", "i" >>
    /\ chIn.val = JPosInt(200)
    /\ chOut = [c |-> "Light", id |-> 5, state |-> [st |-> "Bri", n |-> 200]]

\* The field names the light interpreter knows.
LightFields == {StrOn, StrBri, StrHue, StrSat, StrXy, StrCt, StrEffect}

\* C11: for "/lights/<id>/state/<field>" with a numeric id and a field name
\* that is none of on, bri, hue, sat, xy, ct, effect, the light interpreter
\* does not fail and yields Light{id, state: Other{field, raw}} with the
\* field name of the path and the value as it was given, whatever the value.
C11_UnknownFieldGivesOther ==
    (LightStateCase /\ Len(chIn.pieces) = 5 /\ chIn.pieces[5] \notin LightFields)
        => chOut = [c |-> "Light", id |-> DecimalOf(chIn.pieces[3]),
                    state |-> [st |-> "Other", state |-> chIn.pieces[5],
                               val |-> chIn.val]]

\* C11 witness: ("/lights/5/state/bogus", "x") has been interpreted.
C11_Witness ==
    /\ chTo = "Light"
    /\ chIn.c = "Success"
    /\ chIn.pieces = << << >>, StrLights, << "5" >>, StrState, StrBogus >>
    /\ chIn.val = JStr("x")
    /\ chOut = [c |-> "Light", id |-> 5,
                state |-> [st |-> "Other", state |-> StrBogus, val |-> JStr("x")]]

\* A value that is not what the known light field expects.
IsNonNegInteger(val) == val.k = "num" /\ val.repr = "PosInt"
IsTwoNumbers(val) ==
    val.k = "arr" /\ Len(val.a) = 2 /\ \A i \in 1..2 : val.a[i].k = "num"
UnexpectedFor(field, val) ==
    \/ field = StrOn /\ val.k # "bool"
    \/ field \in {StrBri, StrHue, StrSat, StrCt} /\ ~IsNonNegInteger(val)
    \/ field = StrXy /\ ~IsTwoNumbers(val)
    \/ field = StrEffect /\ val.k # "str"

\* C12: for a known light field with a value that is not of the type or
\* shape the field expects, the light interpreter yields
\* Light{id, state: Other{field, raw}} and does not fail.
C12_WrongTypeGivesOther ==
    (LightStateCase /\ Len(chIn.pieces) = 5
        /\ UnexpectedFor(chIn.pieces[5], chIn.val))
        => chOut = [c |-> "Light", id |-> DecimalOf(chIn.pieces[3]),
                    state |-> [st |-> "Other", state |-> chIn.pieces[5],
                               val |-> chIn.val]]

\* The group interpreter was given "/groups/<id>/<field>" with a decimal id.
GroupAttribCase ==
    /\ chTo = "Group"
    /\ chIn.c = "Success"
    /\ Len(chIn.pieces) = 4
    /\ chIn.pieces[1] = << >>
    /\ chIn.pieces[2] = StrGroups
    /\ IsDecimal(chIn.pieces[3])

\* name with a string gives Name(s), class with a string gives Class(s).
GroupStringAttribs ==
    LET id == DecimalOf(chIn.pieces[3])
        field == chIn.pieces[4]
        val == chIn.val
    IN /\ (field = StrName /\ val.k = "str")
             => chOut = [c |-> "Group", id |-> id,
                         attrib |-> [at |-> "Name", s |-> val.s]]
       /\ (field = StrClass /\ val.k = "str")
             => chOut = [c |-> "Group", id |-> id,
                         attrib |-> [at |-> "Class", s |-> val.s]]

\* The array's numbers as the ids of Lights, in the array's order.
LightsOfArray(a) ==
    [c |-> "Group", id |-> DecimalOf(chIn.pieces[3]),
     attrib |-> [at |-> "Lights", ids |-> [i \in 1..Len(a) |-> a[i].n]]]

C14_GroupOtherNotFailure ==
    (GroupAttribCase
        /\ \/ chIn.pieces[4] \notin {StrName, StrClass, StrLights}
           \/ chIn.pieces[4] \in {StrName, StrClass} /\ chIn.val.k # "str"
           \/ chIn.pieces[4] = StrLights /\ chIn.val.k # "arr")
        => /\ chOut.c = "Group"
           /\ chOut.id = DecimalOf(chIn.pieces[3])
           /\ chOut.attrib.at = "Other"

\* The three interpreters of Success(path, value), the collection each
\* expects and the number of pieces its path has (the empty piece before
\* the first '/' included).
PathInterpreters == {"Light", "Rename", "Group"}
ExpectedCollection(to) == IF to = "Group" THEN StrGroups ELSE StrLights
ExpectedPieces(to) == IF to = "Light" THEN 5 ELSE 4

\* A decimal number as an id is written, with or without a sign.
IsNumber(str) ==
    \/ IsDecimal(str)
    \/ Len(str) > 1 /\ str[1] = "+" /\ IsDecimal(Tail(str))

C16_WrongPieceCountFails ==
    (chTo \in PathInterpreters /\ chIn.c = "Success"
        /\ Len(chIn.pieces) # ExpectedPieces(chTo))
        => chOut = [c |-> "panic"]

\* C17: the acknowledgement "<id> deleted" with a decimal id gives
\* Delete{id}: "5 deleted" gives Delete{id: 5}.
C17_DeleteParsed ==
    (chTo = "Delete" /\ chIn.c = "String" /\ chIn.prefix = << >>
        /\ IsDecimal(chIn.id)
        /\ chIn.word = << " ", "d", "e", "l", "e", "t", "e", "d" >>)
        => chOut = [c |-> "Delete", id |-> DecimalOf(chIn.id)]

\* The string ends in the given suffix.
EndsWith(str, suffix) ==
    /\ Len(str) >= Len(suffix)
    /\ SubSeq(str, Len(str) - Len(suffix) + 1, Len(str)) = suffix

\* C18: a delete acknowledgement that does not end in " deleted"
\* ("5 removed", "5", "5 deleted!") fails to parse, and no Delete record is
\* produced for it.
C18_NoSuffixFails ==
    (chTo = "Delete" /\ chIn.c = "String"
        /\ ~EndsWith(chIn.str, << " ", "d", "e", "l", "e", "t", "e", "d" >>))
        => chOut = [c |-> "panic"]

\* C18 witness: "5 removed" has failed to parse.
C18_Witness ==
    /\ chTo = "Delete"
    /\ chIn.c = "String"
    /\ chIn.str = << "5", " ", "r", "e", "m", "o", "v", "e", "d" >>
    /\ chOut = [c |-> "panic"]

\* C19: "/groups/<id>/action/<field>" with a numeric id is interpreted into
\* a group record carrying the id; it is not a parse failure.
C19_GroupActionInterpreted ==
    (chTo = "Group" /\ chIn.c = "Success" /\ Len(chIn.pieces) = 5
        /\ chIn.pieces[1] = << >>
        /\ chIn.pieces[2] = StrGroups
        /\ IsDecimal(chIn.pieces[3])
        /\ chIn.pieces[4] = StrAction
        /\ chIn.pieces[5] \in LightFields)
        => chOut.c = "Group" /\ chOut.id = DecimalOf(chIn.pieces[3])

\* The rename interpreter was given "/lights/<id>/name" with a decimal id.
RenameCase ==
    /\ chTo = "Rename"
    /\ chIn.c = "Success"
    /\ chIn.pieces[1] = << >>
    /\ Len(chIn.pieces) = 4
    /\ chIn.pieces[2] = StrLights
    /\ IsDecimal(chIn.pieces[3])
    /\ chIn.pieces[4] = StrName

\* C20: for "/lights/<id>/name" with a numeric id, a string s gives
\* Rename{id, name: s}, and a value that is not a string gives no Rename
\* record.
C20_RenameOfString ==
    RenameCase =>
        /\ chIn.val.k = "str"
              => chOut = [c |-> "Rename", id |-> DecimalOf(chIn.pieces[3]),
                          name |-> chIn.val.s]
        /\ chIn.val.k # "str" => chOut.c # "Rename"

\* C20 witness: ("/lights/5/name", "x") has been interpreted, and so has a
\* value that is not a string.
C20_Witness ==
    /\ chTo = "Rename"
    /\ chIn.c = "Success"
    /\ chIn.pieces = << << >>, StrLights, << "5" >>, StrName >>
    /\ chIn.val = JStr("x")
    /\ chOut = [c |-> "Rename", id |-> 5, name |-> "x"]

(***************************************************************************)
(* Claims on the Bridge and its operations                                 *)
(***************************************************************************)

\* The string has no '/' in it.
NoSlash(str) == \A i \in 1..Len(str) : str[i] # "/"

\* C21: for every ip and username without a '/', get_ip() of
\* Bridge::new(ip, username) is ip and get_username() is username.
C21_GetIpAndUsername ==
    (call.op = "Bridge::new" /\ NoSlash(call.ip) /\ NoSlash(call.username))
        => /\ result.get_ip = [ok |-> TRUE, val |-> call.ip]
           /\ result.get_username = [ok |-> TRUE, val |-> call.username]

\* C21 witness: Bridge::new("test", "hello") has been asked for both.
C21_Witness ==
    /\ call.op = "Bridge::new"
    /\ call.ip = << "t", "e", "s", "t" >>
    /\ call.username = << "h", "e", "l", "l", "o" >>
    /\ result.get_ip = [ok |-> TRUE, val |-> << "t", "e", "s", "t" >>]
    /\ result.get_username = [ok |-> TRUE, val |-> << "h", "e", "l", "l", "o" >>]

\* A result that is the bridge error LinkButtonNotPressed.
IsLinkButtonNotPressed(res) ==
    /\ res.r = "Err"
    /\ res.err.kind = "BridgeError"
    /\ res.err.error = "LinkButtonNotPressed"

\* What register_user has returned so far tells where the loop is: it goes
\* on after LinkButtonNotPressed and only then, it has stopped with the
\* username at the first Ok and without one at the first other error.
RegisterLoopState ==
    reg.pc # "none" =>
        /\ \A i \in 1..(Len(reg.results) - 1) : IsLinkButtonNotPressed(reg.results[i])
        /\ reg.pc = "loop" =>
              \A i \in 1..Len(reg.results) : IsLinkButtonNotPressed(reg.results[i])
        /\ reg.pc = "registered" =>
              /\ reg.results[Len(reg.results)].r = "Ok"
              /\ reg.username = [v |-> "Some", x |-> reg.results[Len(reg.results)].val]
        /\ reg.pc = "gave_up" =>
              /\ reg.results[Len(reg.results)].r = "Err"
              /\ ~IsLinkButtonNotPressed(reg.results[Len(reg.results)])
              /\ reg.username = [v |-> "None"]

\* The bridge will answer LinkButtonNotPressed some number of times and
\* then with the new user `name`.
LinkThenUser(wire, name) ==
    \E k \in 1..Len(wire) :
        /\ wire[k] = AnswerUser(name)
        /\ \A i \in 1..(k - 1) : wire[i] = AnswerLink

\* C22: the registration loop asks again if and only if register_user failed
\* with the bridge error LinkButtonNotPressed; it stops at the first Ok,
\* keeping the username, and at the first error of another kind.  So when
\* the bridge answers LinkButtonNotPressed finitely often and then with a
\* user, the loop eventually ends with that username.
C22_RegisterLoop ==
    /\ []RegisterLoopState
    /\ \A name \in RegisteredNames :
          (reg.pc = "loop" /\ LinkThenUser(reg.wire, name))
              ~> (reg.pc = "registered"
                    /\ reg.username = [v |-> "Some", x |-> [v |-> "String", s |-> name]])

\* C22 witness: the loop has ended with the username after two answers of
\* LinkButtonNotPressed.
C22_Witness ==
    /\ reg.pc = "registered"
    /\ Len(reg.results) = 3
    /\ IsLinkButtonNotPressed(reg.results[1])
    /\ IsLinkButtonNotPressed(reg.results[2])
    /\ reg.username = [v |-> "Some", x |-> [v |-> "String", s |-> "newuser"]]

\* The operations that send a request.
SendingOps ==
    {"get_light", "set_light_state", "set_group_state", "delete_light",
     "delete_group", "create_group", "create_scene"}

\* The bridge error an error object stands for.
BridgeErrorOf(e) ==
    [kind |-> "BridgeError", address |-> e.f[1].s, description |-> e.f[2].s,
     error |-> BridgeErrorFrom(e.f[3].n)]

\* C23: when the body of create_group or create_scene is a one-element array
\* whose element is a success object carrying the new id, the call returns
\* Ok with the id; when the element is an error object, it returns the
\* bridge error.
C23_CreateReturnsId ==
    (call.op \in {"create_group", "create_scene"} /\ call.transport = "ok"
        /\ call.body.k = "arr" /\ Len(call.body.a) = 1)
        => LET el == call.body.a[1]
           IN /\ (call.op = "create_group" /\ el = OnlySuccess(IdNum))
                    => result = [r |-> "Ok", val |-> [v |-> "int", n |-> 7]]
              /\ (call.op = "create_scene" /\ el = OnlySuccess(IdStr))
                    => result = [r |-> "Ok", val |-> [v |-> "String", s |-> "7"]]
              /\ (\E e \in ErrorObjects : el = OnlyError(e))
                    => result.r = "Err" /\ result.err.kind = "BridgeError"

ExtractCase ==
    /\ call.op \in BatchOps
    /\ call.transport = "ok"
    /\ Deser(TVec(THueResponse(BatchPayload(call.op))), call.body).ok

\* C25: extract returns Ok exactly when every outcome of the array is a
\* success, and then with the payloads in the array's order and number;
\* otherwise it returns the error of the first outcome that is no success
\* and no payload at all.
C25_ExtractFirstError ==
    ExtractCase =>
        LET responses == Deser(TVec(THueResponse(BatchPayload(call.op))), call.body).val.items
            IsSucc(i) == responses[i].f[1].v = "Some"
            failed == {i \in 1..Len(responses) : ~IsSucc(i)}
        IN IF failed = {}
           THEN result = [r |-> "Ok",
                          val |-> [v |-> "Vec",
                                   items |-> [i \in 1..Len(responses) |-> responses[i].f[1].x]]]
           ELSE LET first == CHOOSE i \in failed : \A j \in failed : i <= j
                IN /\ result.r = "Err"
                   /\ result.err = IF responses[first].f[2].v = "Some"
                                   THEN BridgeErrorOf(responses[first].f[2].x)
                                   ELSE [kind |-> "Msg", msg |-> "Malformed repsonse"]

\* C25 witness: a success followed by an error has given the error.
C25_Witness ==
    /\ call.op = "set_light_state"
    /\ call.transport = "ok"
    /\ call.body = JArr(<< OnlySuccess(MapOn), OnlyError(ErrOff) >>)
    /\ result.r = "Err"
    /\ result.err.kind = "BridgeError"
    /\ result.err.error = "DeviceIsSetToOff"

\* C26: send returns the body decoded as T when it decodes as T; only
\* otherwise is the body decoded as an array of outcomes of T, and then the
\* first element alone decides: its success payload or its bridge error,
\* whatever follows it; an empty array gives "Malformed response".
C26_SendWholeThenFirst ==
    (call.op \in SendingOps /\ call.transport = "ok") =>
        LET T == TypeNamed(call.ty)
            whole == Deser(T, call.body)
            batch == Deser(TVec(THueResponse(T)), call.body)
        IN IF whole.ok THEN call.got = [r |-> "Ok", val |-> whole.val]
           ELSE batch.ok =>
                  IF Len(batch.val.items) = 0
                  THEN call.got = [r |-> "Err",
                                   err |-> [kind |-> "Msg", msg |-> "Malformed response"]]
                  ELSE LET first == batch.val.items[1]
                       IN /\ first.f[1].v = "Some"
                             => call.got = [r |-> "Ok", val |-> first.f[1].x]
                          /\ (first.f[1].v = "None" /\ first.f[2].v = "Some")
                             => call.got = [r |-> "Err", err |-> BridgeErrorOf(first.f[2].x)]

\* C26 witness: get_light has taken the light of the first outcome of an
\* array and passed over the error after it.
C26_Witness ==
    /\ call.op = "get_light"
    /\ call.transport = "ok"
    /\ call.body = JArr(<< OnlySuccess(LightObj), OnlyError(ErrOff) >>)
    /\ call.got.r = "Ok"
    /\ call.got = [r |-> "Ok", val |-> Deser(TLight, LightObj).val]

\* C27: when a delete is acknowledged by an array whose success value is a
\* string, delete_light returns Ok with the acknowledgement, as delete_group
\* does, and no decode error.
C27_DeleteAcknowledged ==
    (call.op \in {"delete_light", "delete_group"} /\ call.transport = "ok"
        /\ call.body = JArr(<< OnlySuccess(StrDeleted) >>))
        => result = [r |-> "Ok",
                     val |-> [v |-> "Vec",
                              items |-> << [v |-> "String", s |-> "/groups/1 deleted"] >>]]

\* C28: Delete::from accepts the acknowledgement the bridge sends,
\* "/lights/<id> deleted" or "/groups/<id> deleted" with a decimal id, and
\* yields Delete{id}; for a string whose first 8 characters are neither
\* "/lights/" nor "/groups/", a string shorter than 8 characters included,
\* it fails.
C28_DeleteAcceptsBridgeAck ==
    (chTo = "Delete" /\ chIn.c = "String") =>
        /\ (chIn.prefix \in {StrLightsPrefix, StrGroupsPrefix}
                /\ IsDecimal(chIn.id)
                /\ chIn.word = << " ", "d", "e", "l", "e", "t", "e", "d" >>)
              => chOut = [c |-> "Delete", id |-> DecimalOf(chIn.id)]
        /\ (Len(chIn.str) < 8
                \/ SubSeq(chIn.str, 1, 8) \notin {StrLightsPrefix, StrGroupsPrefix})
              => chOut = [c |-> "panic"]

\* The value a light notification carries is a non-negative integer.
WideValueCase == LightStateCase /\ IsNonNegInteger(chIn.val)

\* C29: in the light interpreter a non-negative integer for bri, hue, sat or
\* ct that exceeds the width of the field is neither rejected nor reported
\* as Other: it is reduced modulo 2^8 for bri and sat and modulo 2^16 for
\* hue and ct (bri 300 becomes Bri(44)), and only a value within the width
\* is reported unchanged.
C29_WideValueTruncated ==
    WideValueCase =>
        LET id == DecimalOf(chIn.pieces[3])
            field == chIn.pieces[5]
            n == chIn.val.n
            Reported(st, bits) ==
                /\ chOut = [c |-> "Light", id |-> id,
                            state |-> [st |-> st, n |-> n % (2 ^ bits)]]
                /\ (chOut.state.n = n) <=> (n < 2 ^ bits)
        IN /\ field = StrBri => Reported("Bri", 8)
           /\ field = StrSat => Reported("Sat", 8)
           /\ field = StrHue => Reported("Hue", 16)
           /\ field = StrCt => Reported("Ct", 16)

\* C29 witness: ("/lights/5/state/bri", 300) has been reported as Bri(44).
C29_Witness ==
    /\ WideValueCase
    /\ chIn.pieces[3] = << "5" >>
    /\ chIn.pieces[5] = StrBri
    /\ chIn.val = JPosInt(300)
    /\ chOut = [c |-> "Light", id |-> 5, state |-> [st |-> "Bri", n |-> 44]]

\* The calls of the history that were for the given field.
CallsFor(field) == {i \in 1..Len(calls) : calls[i].field = field}

====
